---- MODULE Spec2Model ----
(***************************************************************************)
(* The credential brokering pipeline of gitlab-harbor-token-broker:        *)
(* POST /token requests handled concurrently by Handler.HandleToken, the   *)
(* JWT validator with its shared JWKS cache, the policy engine, the Harbor *)
(* client and the audit logger.                                            *)
(***************************************************************************)
EXTENDS Integers, Sequences, FiniteSets, Bags, TLC

(***************************************************************************)
(* Bounds of the model.                                                    *)
(***************************************************************************)
\* number of POST /token requests handled (each by its own goroutine)
NumReqs == 2
\* number of clock ticks the model lets pass
MaxTicks == 1
\* number of policy rules (configured, or rows of policy_rules) when the
\* policy engine is applied on its own
MaxRules == 2
\* largest lifetime in minutes, and the largest negative one, when the request
\* to the registry is built on its own
MaxTTL == 3700

(***************************************************************************)
(* Program constants.                                                      *)
(***************************************************************************)
\* refreshJWKS: time.Since(v.lastFetch) > 1*time.Hour, in minutes
JWKSMaxAge == 60
\* minutes the clock advances per tick: one tick makes a key set fetched
\* before it older than the freshness window
TickMinutes == JWKSMaxAge + 1
\* config.Load: default security.robot_ttl_minutes
RobotTTLMinutes == 10
\* net/http status codes used by the handler and the Harbor client
StatusOK == 200
StatusCreated == 201
StatusBadRequest == 400
StatusUnauthorized == 401
StatusForbidden == 403
StatusMethodNotAllowed == 405
StatusInternalServerError == 500

Reqs == 1..NumReqs
None == "<nil>"

(***************************************************************************)
(* Configuration (cmd/broker main): the validator's audience and issuers,  *)
(* the policy rules, and the key sets the issuer's JWKS endpoint serves.   *)
(***************************************************************************)
Audience == "broker"
Issuers == <<"https://gitlab.example.com">>
\* the key ids the issuer's JWKS endpoint serves
JWKSRemoteKeys == {"k1"}
GitLabProjects == {"teamA/app", "teamB/lib"}
PermissionValues == {"read", "write", "read-write"}
Kids == {"k1", "k2"}

\* the policy rules of the configuration / the policy_rules table
PolicyRules ==
    << [GitLabProject |-> "teamA/app",
        HarborProjects |-> <<"images-a">>,
        AllowedPerms |-> <<"read", "write">>] >>

(***************************************************************************)
(* Text that may embed a minted secret.  A text is modelled by its         *)
(* message and by the set of robot secrets its bytes contain; the secret   *)
(* minted for request r is named r.                                        *)
(***************************************************************************)
Text(msg, secrets) == [msg |-> msg, secrets |-> secrets]
NoText == Text("", {})

(***************************************************************************)
(* Tokens.  A raw token string is either not a JWT at all or a JWT with a  *)
(* header (alg, kid), a signature made or not made by the private key of   *)
(* its kid, and claims.  exp is an instant; hasExp tells whether the claim  *)
(* is present.                                                             *)
(***************************************************************************)
Algs == {"RS256", "PS256", "HS256", "none"}
GoodIssuer == "https://gitlab.example.com"
BadIssuer == "https://evil.example.com"

\* tokens that pass every check at instant t while the key set holds k1
ValidTokens(t) ==
    [form : {"jwt"}, alg : {"RS256"}, kid : {"k1"}, sigOK : {TRUE},
     iss : {GoodIssuer}, aud : {<<"broker">>, <<"other", "broker">>},
     hasExp : {TRUE}, exp : {t + TickMinutes}, project_path : GitLabProjects,
     job_id : {"job-1"}]

\* the tokens that differ from tok in one part
Alter(tok, t) ==
    {[tok EXCEPT !.form = "garbage"]}
    \cup {[tok EXCEPT !.alg = a] : a \in Algs}
    \cup {[tok EXCEPT !.kid = k] : k \in Kids \cup {None}}
    \cup {[tok EXCEPT !.sigOK = FALSE]}
    \cup {[tok EXCEPT !.iss = BadIssuer]}
    \cup {[tok EXCEPT !.aud = <<"other">>]}
    \cup {[tok EXCEPT !.exp = e] : e \in {t - TickMinutes, t}}
    \cup {[tok EXCEPT !.hasExp = FALSE, !.exp = 0]}

\* the tokens presented at instant t: the valid ones and those that differ
\* from a valid one in one part
Tokens(t) ==
    ValidTokens(t)
    \cup UNION {Alter(v, t) : v \in {w \in ValidTokens(t) :
                                       w.project_path = "teamA/app"
                                       /\ w.aud = <<"broker">>}}

\* membership of an item in a slice
contains(slice, item) == \E i \in 1..Len(slice) : slice[i] = item

\* the signing methods golang-jwt registers: the parser rejects a token whose
\* alg names no registered method before it calls the key function
RegisteredAlgs ==
    {"RS256", "RS384", "RS512", "PS256", "HS256", "ES256", "none"}

\* a variant that takes every registered method for an RSA one
IsSigningMethodRSA_Any(alg) == TRUE

\* token.Method.(*jwt.SigningMethodRSA): only the RS* family has that type;
\* RSA-PSS, HMAC, ECDSA and none are other types
IsSigningMethodRSA(alg) == alg \in {"RS256", "RS384", "RS512"}

\* whether the key function reaches the key set (it takes the read lock there)
KeyfuncReadsKeySet(tok) ==
    tok.form = "jwt" /\ IsSigningMethodRSA(tok.alg) /\ tok.kid # None

\* the key function handed to jwt.ParseWithClaims: "" or its error
Keyfunc(tok, ks) ==
    IF ~IsSigningMethodRSA(tok.alg) THEN "unexpected signing method"
    ELSE IF tok.kid = None THEN "kid not found in token header"
    ELSE IF tok.kid \notin ks THEN "key not found in JWKS"
    ELSE ""

\* jwt.ParseWithClaims of golang-jwt v5: parse, key function, signature, then
\* the registered claims' time validation (exp, when present, must be after now)
ParseWithClaims(tok, ks, t) ==
    IF tok.form # "jwt" THEN "token is malformed"
    ELSE IF tok.alg \notin RegisteredAlgs THEN "signing method (alg) is unavailable"
    ELSE IF Keyfunc(tok, ks) # "" THEN Keyfunc(tok, ks)
    ELSE IF ~tok.sigOK THEN "signature is invalid"
    ELSE IF tok.hasExp /\ ~(t < tok.exp) THEN "token is expired"
    ELSE ""

isValidIssuer(issuer) == contains(Issuers, issuer)

\* Validator.ValidateToken after refreshJWKS returned nil: err is "" (the
\* claims of the token are returned) or the error; cause is the innermost
\* error, which names the check that failed.
ValidateParsed(tok, ks, t) ==
    LET perr == ParseWithClaims(tok, ks, t) IN
    IF perr # "" THEN
        [err |-> "failed to parse token", cause |-> perr]
    ELSE IF ~isValidIssuer(tok.iss) THEN
        [err |-> "invalid issuer", cause |-> "invalid issuer"]
    ELSE IF ~contains(tok.aud, Audience) THEN
        [err |-> "invalid audience", cause |-> "invalid audience"]
    ELSE IF ~tok.hasExp \/ tok.exp < t THEN
        [err |-> "token expired", cause |-> "token expired"]
    ELSE [err |-> "", cause |-> ""]

(***************************************************************************)
(* Policy engine.                                                          *)
(***************************************************************************)
ErrNoPolicy == "no policy found for GitLab project and Harbor project"
ErrPermission == "permission not allowed for this project"
ErrFetchPolicy == "failed to fetch policy"

\* ValidatePermission: "" or the error
ValidatePermission(permission) ==
    IF permission \in {"read", "write", "read-write"} THEN ""
    ELSE "invalid permission: must be 'read', 'write', or 'read-write'"

\* a variant of the loop that does not look at the rule's Harbor projects
RECURSIVE AuthorizeFrom_NoScopeCheck(_, _, _, _, _)
AuthorizeFrom_NoScopeCheck(rules, i, gitlabProject, harborProject, permission) ==
    IF i > Len(rules) THEN ErrNoPolicy
    ELSE IF rules[i].GitLabProject = gitlabProject
         THEN IF ~contains(rules[i].AllowedPerms, permission)
              THEN ErrPermission
              ELSE ""
         ELSE AuthorizeFrom_NoScopeCheck(rules, i + 1, gitlabProject, harborProject,
                                         permission)

\* a variant of the loop that goes on to the next rule when a rule of the
\* project that holds the scope lacks the permission
RECURSIVE AuthorizeFrom_AnyRuleAllows(_, _, _, _, _)
AuthorizeFrom_AnyRuleAllows(rules, i, gitlabProject, harborProject, permission) ==
    IF i > Len(rules) THEN ErrNoPolicy
    ELSE IF rules[i].GitLabProject = gitlabProject
            /\ contains(rules[i].HarborProjects, harborProject)
            /\ contains(rules[i].AllowedPerms, permission)
         THEN ""
         ELSE AuthorizeFrom_AnyRuleAllows(rules, i + 1, gitlabProject, harborProject,
                                          permission)

\* the loop of AuthorizeRequest over the configured rules, from rule i on
RECURSIVE AuthorizeFrom(_, _, _, _, _)
AuthorizeFrom(rules, i, gitlabProject, harborProject, permission) ==
    IF i > Len(rules) THEN ErrNoPolicy
    ELSE IF rules[i].GitLabProject = gitlabProject
            /\ contains(rules[i].HarborProjects, harborProject)
         THEN IF ~contains(rules[i].AllowedPerms, permission)
              THEN ErrPermission
              ELSE ""
         ELSE AuthorizeFrom(rules, i + 1, gitlabProject, harborProject, permission)

\* DB.GetPolicyByGitLabProject through PolicyStoreAdapter: the row whose
\* gitlab_project is the one asked for, or the empty rule when there is none
EmptyRule == [GitLabProject |-> "", HarborProjects |-> <<>>, AllowedPerms |-> <<>>]
\* a variant whose query has no WHERE clause
GetPolicyByGitLabProject_AnyRow(rows, gitlabProject) ==
    IF rows # <<>> THEN rows[1] ELSE EmptyRule
GetPolicyByGitLabProject(rows, gitlabProject) ==
    IF \E i \in 1..Len(rows) : rows[i].GitLabProject = gitlabProject
    THEN rows[CHOOSE i \in 1..Len(rows) : rows[i].GitLabProject = gitlabProject]
    ELSE EmptyRule

\* a variant that takes "read-write" as granted by "read" and "write" together
AuthorizeRequest_Implied(backend, rules, dbErr, gitlabProject, harborProject, permission) ==
    LET Check(perm) ==
            IF backend = "store" THEN
                IF dbErr THEN ErrFetchPolicy
                ELSE LET rule == GetPolicyByGitLabProject(rules, gitlabProject) IN
                     IF ~contains(rule.HarborProjects, harborProject) THEN ErrNoPolicy
                     ELSE IF ~contains(rule.AllowedPerms, perm) THEN ErrPermission
                     ELSE ""
            ELSE AuthorizeFrom(rules, 1, gitlabProject, harborProject, perm)
    IN IF permission = "read-write" /\ Check("read") = "" /\ Check("write") = ""
       THEN ""
       ELSE Check(permission)

\* a variant whose store branch checks the permission before the scope
AuthorizeRequest_PermissionFirst(backend, rules, dbErr, gitlabProject, harborProject, permission) ==
    IF backend = "store" THEN
        IF dbErr THEN ErrFetchPolicy
        ELSE LET rule == GetPolicyByGitLabProject(rules, gitlabProject) IN
             IF ~contains(rule.AllowedPerms, permission) THEN ErrPermission
             ELSE IF ~contains(rule.HarborProjects, harborProject) THEN ErrNoPolicy
             ELSE ""
    ELSE AuthorizeFrom(rules, 1, gitlabProject, harborProject, permission)

\* Engine.AuthorizeRequest: "" (authorized) or the error.  backend is "store"
\* when the engine was built by NewEngineWithStore; dbErr tells whether the
\* store's lookup fails.
AuthorizeRequest(backend, rules, dbErr, gitlabProject, harborProject, permission) ==
    IF backend = "store" THEN
        IF dbErr THEN ErrFetchPolicy
        ELSE LET rule == GetPolicyByGitLabProject(rules, gitlabProject) IN
             IF ~contains(rule.HarborProjects, harborProject) THEN ErrNoPolicy
             ELSE IF ~contains(rule.AllowedPerms, permission) THEN ErrPermission
             ELSE ""
    ELSE AuthorizeFrom(rules, 1, gitlabProject, harborProject, permission)

(***************************************************************************)
(* Harbor client: the pure parts of CreateRobotAccount.                    *)
(***************************************************************************)
MinutesPerDay == 60 * 24

\* a variant whose "read-write" case is missing and falls to the default
mapPermissionToAccess_NoReadWrite(permission) ==
    CASE permission = "read" -> <<"pull">>
      [] permission = "write" -> <<"pull", "push">>
      [] OTHER -> <<>>

\* mapPermissionToAccess: the actions on resource "repository"
mapPermissionToAccess(permission) ==
    CASE permission = "read" -> <<"pull">>
      [] permission = "write" -> <<"pull", "push">>
      [] permission = "read-write" -> <<"pull", "push">>
      [] OTHER -> <<>>

\* variants that cut the days off, and that round every started day up
DurationDays_Truncated(ttlMinutes) ==
    IF ttlMinutes < MinutesPerDay THEN 1 ELSE ttlMinutes \div MinutesPerDay
DurationDays_Ceiling(ttlMinutes) ==
    IF ttlMinutes < MinutesPerDay THEN 1
    ELSE (ttlMinutes + MinutesPerDay - 1) \div MinutesPerDay

\* request.Duration: durationDays := ttlMinutes / 1440.0; 1 when it is below
\* one, else int64(durationDays + 0.5)
DurationDays(ttlMinutes) ==
    IF ttlMinutes < MinutesPerDay THEN 1
    ELSE (2 * ttlMinutes + MinutesPerDay) \div (2 * MinutesPerDay)

\* the account-creation request submitted to the registry
CreateRobotRequest(projectName, robotName, permission, ttlMinutes) ==
    [Name |-> robotName, Duration |-> DurationDays(ttlMinutes), Level |-> "project",
     Namespace |-> projectName, Access |-> mapPermissionToAccess(permission)]

\* What the registry may answer to GET /projects?name=...: a transport error
\* or timeout, or a status with a body.
GetProjectResponses ==
    { [net |-> "error", status |-> 0, body |-> ""],
      [net |-> "ok", status |-> StatusInternalServerError, body |-> "error"],
      [net |-> "ok", status |-> StatusOK, body |-> "garbage"],
      [net |-> "ok", status |-> StatusOK, body |-> "[]"],
      [net |-> "ok", status |-> StatusOK, body |-> "[project]"] }

\* a variant that takes the first project of an empty list
GetProject_EmptyIsFound(resp) ==
    IF resp.net # "ok" THEN "failed to execute request"
    ELSE IF resp.status # StatusOK THEN "harbor API error"
    ELSE IF resp.body = "garbage" THEN "failed to decode response"
    ELSE ""

\* Client.GetProject on a response: "" (a project was found) or the error
GetProject(resp) ==
    IF resp.net # "ok" THEN "failed to execute request"
    ELSE IF resp.status # StatusOK THEN "harbor API error"
    ELSE IF resp.body = "garbage" THEN "failed to decode response"
    ELSE IF resp.body = "[]" THEN "project not found"
    ELSE ""

\* What the registry may answer to POST /projects/{id}/robots: a transport
\* error or timeout, or a status with a body.  The body "robot" is the JSON of
\* the account the registry created, secret included; the registry answers
\* creation with 201 Created and, in other API revisions or behind a gateway,
\* with 200 OK.
\* The JSON of an account carries the registry's own expires_at, or none:
\* an RFC 3339 string, which decodes into RobotAccount.ExpiresAt (a
\* time.Time), or a number (Harbor sends epoch seconds), which does not.
NoExpiry == [kind |-> "absent", at |-> 0]
RegistryExpiries ==
    { NoExpiry, [kind |-> "rfc3339", at |-> 0],
      [kind |-> "rfc3339", at |-> MinutesPerDay],
      [kind |-> "number", at |-> MinutesPerDay] }
CreateRobotResponses ==
    { [net |-> "error", status |-> 0, body |-> "", expires_at |-> NoExpiry],
      [net |-> "ok", status |-> StatusInternalServerError, body |-> "error",
       expires_at |-> NoExpiry],
      [net |-> "ok", status |-> StatusCreated, body |-> "garbage",
       expires_at |-> NoExpiry] }
    \cup [net : {"ok"}, status : {StatusOK, StatusCreated}, body : {"robot"},
          expires_at : RegistryExpiries]

\* the secrets the bytes of a response body contain, for the account of r
BodySecrets(resp, r) == IF resp.body = "robot" THEN {r} ELSE {}

\* Client.CreateRobotAccount after the request was sent, on the response:
\* err is NoText and robot the account, or err is the error.
NoRobot == [ID |-> 0, Name |-> <<>>, Secret |-> {}, ExpiresAt |-> 0]
\* a variant that keeps the expiry the registry returned
CreateRobotResult_RegistryExpiry(resp, r, robotName, ttlMinutes, t) ==
    IF resp.net # "ok" THEN
        [err |-> Text("failed to execute request", {}), robot |-> NoRobot]
    ELSE IF resp.status # StatusCreated THEN
        [err |-> Text("harbor API error (status, body)", BodySecrets(resp, r)),
         robot |-> NoRobot]
    ELSE IF resp.body # "robot" \/ resp.expires_at.kind = "number" THEN
        [err |-> Text("failed to decode response", {}), robot |-> NoRobot]
    ELSE [err |-> NoText,
          robot |-> [ID |-> r, Name |-> robotName, Secret |-> {r},
                     ExpiresAt |-> IF resp.expires_at.kind = "rfc3339"
                                   THEN resp.expires_at.at
                                   ELSE t + ttlMinutes]]

CreateRobotResult(resp, r, robotName, ttlMinutes, t) ==
    IF resp.net # "ok" THEN
        [err |-> Text("failed to execute request", {}), robot |-> NoRobot]
    ELSE IF resp.status # StatusCreated THEN
        [err |-> Text("harbor API error (status, body)", BodySecrets(resp, r)),
         robot |-> NoRobot]
    ELSE IF resp.body # "robot" \/ resp.expires_at.kind = "number" THEN
        [err |-> Text("failed to decode response", {}), robot |-> NoRobot]
    ELSE [err |-> NoText,
          robot |-> [ID |-> r, Name |-> robotName, Secret |-> {r},
                     ExpiresAt |-> t + ttlMinutes]]

(***************************************************************************)
(* Logger.  A log line is a LogEntry; req is not a field of the program's  *)
(* entry: it names the request whose handler wrote the line.  secrets are  *)
(* the secrets the line's bytes contain.                                   *)
(***************************************************************************)
LogEntry(r, level, message) ==
    [req |-> r, level |-> level, message |-> message, gitlab_project |-> "",
     harbor_project |-> "", permission |-> "", robot_id |-> 0,
     robot_name |-> <<>>, expires_at |-> 0, job_id |-> "", error |-> "",
     secrets |-> {}]

\* Logger.Error(message, err)
ErrorEntry(r, message, err) ==
    [LogEntry(r, "ERROR", message) EXCEPT !.error = err.msg, !.secrets = err.secrets]

\* Logger.AuditTokenIssued: the entry of the log line and of the store row
AuditTokenIssued(r, gitlabProject, harborProject, permission, robotID, robotName, expiresAt, jobID) ==
    [LogEntry(r, "AUDIT", "Token issued") EXCEPT
        !.gitlab_project = gitlabProject, !.harbor_project = harborProject,
        !.permission = permission, !.robot_id = robotID, !.robot_name = robotName,
        !.expires_at = expiresAt, !.job_id = jobID]

\* Logger.AuditRequestDenied
AuditRequestDenied(r, gitlabProject, harborProject, permission, reason) ==
    [LogEntry(r, "AUDIT", "Request denied") EXCEPT
        !.gitlab_project = gitlabProject, !.harbor_project = harborProject,
        !.permission = permission, !.error = reason]

(***************************************************************************)
(* Handler responses.                                                      *)
(***************************************************************************)
NoResponse ==
    [status |-> 0, error |-> "", username |-> <<>>, password |-> {},
     expires_at |-> 0, secrets |-> {}]
\* respondError(w, status, message)
respondError(status, message) ==
    [NoResponse EXCEPT !.status = status, !.error = message.msg,
                       !.secrets = message.secrets]
\* respondJSON(w, http.StatusOK, TokenResponse{...})
respondToken(robot) ==
    [NoResponse EXCEPT !.status = StatusOK, !.username = robot.Name,
                       !.password = robot.Secret, !.expires_at = robot.ExpiresAt]

(***************************************************************************)
(* What a stretch of the handler does, in program order: log lines written *)
(* to stdout, rows handed to the access-log store, the response sent.      *)
(***************************************************************************)
LogLine(entry) == [kind |-> "log", entry |-> entry, resp |-> NoResponse]
StoreRow(entry, status) ==
    [kind |-> "store", entry |-> [entry EXCEPT !.level = status], resp |-> NoResponse]
Respond(resp) == [kind |-> "respond", entry |-> LogEntry(0, "", ""), resp |-> resp]

\* HandleToken up to the call of ValidateToken: the method and the
\* Authorization header
OnEntry(method, authHeader) ==
    IF method # "POST" THEN
        <<Respond(respondError(StatusMethodNotAllowed, Text("method not allowed", {})))>>
    ELSE IF authHeader = "" THEN
        <<Respond(respondError(StatusUnauthorized, Text("missing authorization header", {})))>>
    ELSE IF authHeader # "Bearer" THEN
        <<Respond(respondError(StatusUnauthorized,
                               Text("invalid authorization header format", {})))>>
    ELSE <<>>

\* Variants of the handler's branches that the properties at the end of the
\* module must tell from the handler's own: a rejection of a token that is
\* audited as a denial, and one that tells the caller which check failed.
OnInvalidToken_Audited(r, err) ==
    << LogLine(ErrorEntry(r, "JWT validation failed", err)),
       LogLine(AuditRequestDenied(r, "", "", "", err.msg)),
       Respond(respondError(StatusUnauthorized, Text("invalid or expired token", {}))) >>
OnInvalidToken_Leaky(r, err) ==
    << LogLine(ErrorEntry(r, "JWT validation failed", err)),
       Respond(respondError(StatusUnauthorized, err)) >>

\* HandleToken when ValidateToken returned err
OnInvalidToken(r, err) ==
    << LogLine(ErrorEntry(r, "JWT validation failed", err)),
       Respond(respondError(StatusUnauthorized, Text("invalid or expired token", {}))) >>

\* a variant that does not call ValidatePermission
OnBody_NoValidatePermission(body) ==
    IF ~body.decodable THEN
        <<Respond(respondError(StatusBadRequest, Text("invalid request body", {})))>>
    ELSE IF body.harbor_project = "" THEN
        <<Respond(respondError(StatusBadRequest, Text("harbor_project is required", {})))>>
    ELSE IF body.permissions = "" THEN
        <<Respond(respondError(StatusBadRequest, Text("permissions is required", {})))>>
    ELSE <<>>

\* HandleToken from the decoding of the body to ValidatePermission: <<>> when
\* the request is well formed
OnBody(body) ==
    IF ~body.decodable THEN
        <<Respond(respondError(StatusBadRequest, Text("invalid request body", {})))>>
    ELSE IF body.harbor_project = "" THEN
        <<Respond(respondError(StatusBadRequest, Text("harbor_project is required", {})))>>
    ELSE IF body.permissions = "" THEN
        <<Respond(respondError(StatusBadRequest, Text("permissions is required", {})))>>
    ELSE IF ValidatePermission(body.permissions) # "" THEN
        <<Respond(respondError(StatusBadRequest,
                               Text(ValidatePermission(body.permissions), {})))>>
    ELSE <<>>

\* a variant that responds without the audit record
OnDenied_NoAudit(r, withStore, gitlabProject, harborProject, permission, reason) ==
    <<Respond(respondError(StatusForbidden, Text("access denied by policy", {})))>>

\* a variant that audits the message of the response, not the reason
OnDenied_GenericReason(r, withStore, gitlabProject, harborProject, permission, reason) ==
    LET e == AuditRequestDenied(r, gitlabProject, harborProject, permission,
                                "access denied by policy") IN
    <<LogLine(e)>>
    \o (IF withStore THEN <<StoreRow(e, "denied")>> ELSE <<>>)
    \o <<Respond(respondError(StatusForbidden, Text("access denied by policy", {})))>>
\* HandleToken when AuthorizeRequest returned the error reason; the logger
\* hands the row to the access-log store when it has one
OnDenied(r, withStore, gitlabProject, harborProject, permission, reason) ==
    LET e == AuditRequestDenied(r, gitlabProject, harborProject, permission, reason) IN
    <<LogLine(e)>>
    \o (IF withStore THEN <<StoreRow(e, "denied")>> ELSE <<>>)
    \o <<Respond(respondError(StatusForbidden, Text("access denied by policy", {})))>>

\* a variant that audits the failure as a denial
OnMintError_Audited(r, err) ==
    << LogLine(ErrorEntry(r, "Failed to create robot account", err)),
       LogLine(AuditRequestDenied(r, "", "", "", err.msg)),
       Respond(respondError(StatusInternalServerError,
                            Text("failed to create credentials", {}))) >>

\* HandleToken when CreateRobotAccount returned err
OnMintError(r, err) ==
    << LogLine(ErrorEntry(r, "Failed to create robot account", err)),
       Respond(respondError(StatusInternalServerError,
                            Text("failed to create credentials", {}))) >>

\* a variant that returns the credential without the audit record
OnIssued_NoAudit(r, withStore, gitlabProject, harborProject, permission, robot, jobID) ==
    <<Respond(respondToken(robot))>>

\* HandleToken when CreateRobotAccount returned robot
OnIssued(r, withStore, gitlabProject, harborProject, permission, robot, jobID) ==
    LET e == AuditTokenIssued(r, gitlabProject, harborProject, permission,
                              robot.ID, robot.Name, robot.ExpiresAt, jobID) IN
    <<LogLine(e)>>
    \o (IF withStore THEN <<StoreRow(e, "success")>> ELSE <<>>)
    \o <<Respond(respondToken(robot))>>

(***************************************************************************)
(* State.                                                                  *)
(***************************************************************************)
VARIABLES
    now,          \* the clock, in minutes
    keySet,       \* Validator.keySet: [nil, keys]
    lastFetch,    \* Validator.lastFetch
    keySetMutex,  \* the request holding Validator.keySetMutex for writing, or 0
    backend,      \* "config" (NewEngine, NewLogger) or "store" (the database)
    rules,        \* the engine's rules, or the rows of policy_rules
    req,          \* per request: where its handler is and what it holds
    stdout,       \* the log lines written, as a bag (their order across
                  \* requests is not kept; hist keeps each request's order)
    accessLogs,   \* the rows of access_logs, as a bag
    probe         \* a function of the program applied on its own: the inputs
                  \* drawn and, once applied, what it returned

vars == <<now, keySet, lastFetch, keySetMutex, backend, rules, req,
          stdout, accessLogs, probe>>

\* A request: pc, project and job (the token's claims), harbor and perm (the
\* decoded body) are its handler's position and locals, gone when the handler
\* returns; resp is the response sent.  The rest records what happened to it:
\* verified (ValidateToken returned its claims), cause (the check its token
\* failed), malformed (its body is malformed), asked (what the policy decision
\* was asked), authz (what AuthorizeRequest returned, "none" before the call),
\* hist (its calls, log lines and response, in order).
NewRequest ==
    [pc |-> "start", project |-> "", job |-> "", harbor |-> "", perm |-> "",
     verified |-> FALSE, cause |-> "", malformed |-> FALSE, asked |-> <<>>,
     authz |-> "none", resp |-> NoResponse, hist |-> <<>>]

\* no function is applied on its own while requests are handled
NoProbe == [kind |-> "none"]

Init ==
    /\ now = 0
    /\ keySet = [nil |-> TRUE, keys |-> {}]
    /\ lastFetch = 0
    /\ keySetMutex = 0
    /\ backend \in {"config", "store"}
    /\ rules = PolicyRules
    /\ req = [r \in Reqs |-> NewRequest]
    /\ stdout = EmptyBag
    /\ accessLogs = EmptyBag
    /\ probe = NoProbe

\* the names of a stretch's effects, in order: a log line's message, "store",
\* "respond"
RECURSIVE Kinds(_)
Kinds(effects) ==
    IF effects = <<>> THEN <<>>
    ELSE <<IF Head(effects).kind = "log" THEN Head(effects).entry.message
           ELSE Head(effects).kind>> \o Kinds(Tail(effects))

IsLog(e) == e.kind = "log"
IsStore(e) == e.kind = "store"
IsRespond(e) == e.kind = "respond"
RECURSIVE Entries(_)
Entries(effects) ==
    IF effects = <<>> THEN <<>>
    ELSE <<Head(effects).entry>> \o Entries(Tail(effects))

RECURSIVE BagOf(_)
BagOf(seq) ==
    IF seq = <<>> THEN EmptyBag ELSE SetToBag({Head(seq)}) (+) BagOf(Tail(seq))

\* a variant in which a failure of the access-log store fails the request
Finish_SinkFatal(r, rq, effects, storeOK) ==
    LET failed == ~storeOK /\ SelectSeq(effects, IsStore) # <<>> IN
    /\ stdout' = stdout (+) BagOf(Entries(SelectSeq(effects, IsLog)))
    /\ accessLogs' = IF storeOK
                     THEN accessLogs (+) BagOf(Entries(SelectSeq(effects, IsStore)))
                     ELSE accessLogs
    /\ req' = [req EXCEPT ![r] =
                 [rq EXCEPT !.pc = "done", !.project = "", !.job = "", !.harbor = "",
                            !.perm = "",
                            !.resp = IF failed
                                     THEN respondError(StatusInternalServerError,
                                                       Text("failed to write access log", {}))
                                     ELSE SelectSeq(effects, IsRespond)[1].resp,
                            !.hist = rq.hist \o Kinds(effects)]]

\* The end of request r's handler: its effects happen in order; storeOK tells
\* whether the access-log store takes the rows (Logger drops its error).
Finish(r, rq, effects, storeOK) ==
    /\ stdout' = stdout (+) BagOf(Entries(SelectSeq(effects, IsLog)))
    /\ accessLogs' = IF storeOK
                     THEN accessLogs (+) BagOf(Entries(SelectSeq(effects, IsStore)))
                     ELSE accessLogs
    /\ req' = [req EXCEPT ![r] =
                 [rq EXCEPT !.pc = "done", !.project = "", !.job = "", !.harbor = "",
                            !.perm = "",
                            !.resp = SelectSeq(effects, IsRespond)[1].resp,
                            !.hist = rq.hist \o Kinds(effects)]]

Step(r, event) == [req[r] EXCEPT !.hist = @ \o <<event>>]

(***************************************************************************)
(* HandleToken, request r, up to the call of ValidateToken.                *)
(***************************************************************************)
Receive(r) ==
    /\ req[r].pc = "start"
    /\ \E method \in {"POST", "GET"}, authHeader \in {"", "Basic", "Bearer"} :
         IF OnEntry(method, authHeader) # <<>>
         THEN /\ Finish(r, req[r], OnEntry(method, authHeader), FALSE)
         ELSE /\ req' = [req EXCEPT ![r] = [Step(r, "ValidateToken") EXCEPT !.pc = "refresh"]]
              /\ UNCHANGED <<stdout, accessLogs>>
    /\ UNCHANGED probe
    /\ UNCHANGED <<now, keySet, lastFetch, keySetMutex, backend, rules>>

(***************************************************************************)
(* Validator.refreshJWKS.                                                  *)
(***************************************************************************)
\* a variant that takes a key set exactly one hour old for a stale one
NeedsRefresh_AtAge(ks, fetched, t) == ks.nil \/ t - fetched >= JWKSMaxAge

\* v.keySet == nil || time.Since(v.lastFetch) > 1*time.Hour
NeedsRefresh(ks, fetched, t) == ks.nil \/ t - fetched > JWKSMaxAge

\* the check under the read lock
RefreshCheck(r) ==
    /\ req[r].pc = "refresh"
    /\ keySetMutex = 0
    /\ req' = [req EXCEPT ![r].pc =
                 IF NeedsRefresh(keySet, lastFetch, now) THEN "lock" ELSE "verify"]
    /\ UNCHANGED probe
    /\ UNCHANGED <<now, keySet, lastFetch, keySetMutex, backend, rules,
                   stdout, accessLogs>>

\* Lock() and the second check under the write lock
RefreshLock(r) ==
    /\ req[r].pc = "lock"
    /\ keySetMutex = 0
    /\ IF NeedsRefresh(keySet, lastFetch, now)
       THEN /\ keySetMutex' = r
            /\ req' = [req EXCEPT ![r].pc = "fetch"]
       ELSE /\ keySetMutex' = 0
            /\ req' = [req EXCEPT ![r].pc = "verify"]
    /\ UNCHANGED probe
    /\ UNCHANGED <<now, keySet, lastFetch, backend, rules, stdout, accessLogs>>

\* jwk.Fetch returned a key set: it is stored with the instant of the fetch
RefreshFetched(r) ==
    /\ req[r].pc = "fetch"
    /\ keySetMutex = r
    /\ keySet' = [nil |-> FALSE, keys |-> JWKSRemoteKeys]
    /\ lastFetch' = now
    /\ keySetMutex' = 0
    /\ req' = [req EXCEPT ![r].pc = "verify"]
    /\ UNCHANGED probe
    /\ UNCHANGED <<now, backend, rules, stdout, accessLogs>>

\* jwk.Fetch failed or timed out: refreshJWKS returns the error, ValidateToken
\* wraps it and the handler rejects the request.  The cause recorded tells
\* whether a key set was cached when the fetch failed.
FetchFailedNoKeySet == "failed to fetch JWKS, no key set cached"
FetchFailedStale == "failed to fetch JWKS, stale key set cached"
\* a variant that returns the error without releasing the write lock
RefreshFailed_NoUnlock(r) ==
    /\ req[r].pc = "fetch"
    /\ keySetMutex = r
    /\ keySetMutex' = r
    /\ Finish(r, [req[r] EXCEPT !.cause = IF keySet.nil THEN FetchFailedNoKeySet
                                                        ELSE FetchFailedStale],
              OnInvalidToken(r, Text("failed to refresh JWKS", {})), FALSE)
    /\ UNCHANGED probe
    /\ UNCHANGED <<now, keySet, lastFetch, backend, rules>>
RefreshFailed(r) ==
    /\ req[r].pc = "fetch"
    /\ keySetMutex = r
    /\ keySetMutex' = 0
    /\ Finish(r, [req[r] EXCEPT !.cause = IF keySet.nil THEN FetchFailedNoKeySet
                                                        ELSE FetchFailedStale],
              OnInvalidToken(r, Text("failed to refresh JWKS", {})), FALSE)
    /\ UNCHANGED probe
    /\ UNCHANGED <<now, keySet, lastFetch, backend, rules>>

(***************************************************************************)
(* Validator.ValidateToken after refreshJWKS, and the handler's branch on  *)
(* its result.                                                             *)
(***************************************************************************)
Verify(r) ==
    /\ req[r].pc = "verify"
    /\ \E tok \in Tokens(now) :
         /\ KeyfuncReadsKeySet(tok) => keySetMutex = 0
         /\ LET res == ValidateParsed(tok, keySet.keys, now) IN
            IF res.err # ""
            THEN Finish(r, [req[r] EXCEPT !.cause = res.cause],
                        OnInvalidToken(r, Text(res.err, {})), FALSE)
            ELSE /\ req' = [req EXCEPT ![r] =
                              [req[r] EXCEPT !.pc = "body", !.verified = TRUE,
                                             !.project = tok.project_path,
                                             !.job = tok.job_id]]
                 /\ UNCHANGED <<stdout, accessLogs>>
    /\ UNCHANGED probe
    /\ UNCHANGED <<now, keySet, lastFetch, keySetMutex, backend, rules>>

(***************************************************************************)
(* The request body.                                                       *)
(***************************************************************************)
Body(decodable, harborProject, permissions) ==
    [decodable |-> decodable, harbor_project |-> harborProject,
     permissions |-> permissions]
Bodies ==
    { Body(FALSE, "", ""), Body(TRUE, "", "write"), Body(TRUE, "images-a", ""),
      Body(TRUE, "images-a", "admin"), Body(TRUE, "images-a", "write"),
      Body(TRUE, "images-a", "read-write") }

\* the wire contract: a body is malformed when it cannot be decoded, lacks
\* harbor_project or permissions, or asks a permission outside the three values
IsMalformed(body) ==
    \/ ~body.decodable
    \/ body.harbor_project = ""
    \/ body.permissions \notin PermissionValues

ParseBody(r) ==
    /\ req[r].pc = "body"
    /\ \E body \in Bodies :
         IF OnBody(body) # <<>>
         THEN Finish(r, [req[r] EXCEPT !.malformed = IsMalformed(body)], OnBody(body),
                     FALSE)
         ELSE /\ req' = [req EXCEPT ![r] =
                           [req[r] EXCEPT !.pc = "authz", !.malformed = IsMalformed(body),
                                          !.harbor = body.harbor_project,
                                          !.perm = body.permissions]]
              /\ UNCHANGED <<stdout, accessLogs>>
    /\ UNCHANGED probe
    /\ UNCHANGED <<now, keySet, lastFetch, keySetMutex, backend, rules>>

(***************************************************************************)
(* The policy decision.                                                    *)
(***************************************************************************)
\* a variant of the handler's test of the decision that lets every request pass
Denied_Never(err) == FALSE

\* if err := h.policyEngine.AuthorizeRequest(...); err != nil
Denied(err) == err # ""

Authorize(r) ==
    /\ req[r].pc = "authz"
    /\ \E dbErr \in (IF backend = "store" THEN BOOLEAN ELSE {FALSE}), storeOK \in BOOLEAN :
         LET rq == [Step(r, "AuthorizeRequest") EXCEPT
                      !.asked = <<req[r].project, req[r].harbor, req[r].perm>>]
             err == AuthorizeRequest(backend, rules, dbErr, rq.project, rq.harbor, rq.perm)
         IN IF Denied(err)
            THEN Finish(r, [rq EXCEPT !.authz = err],
                        OnDenied(r, backend = "store", rq.project, rq.harbor, rq.perm, err),
                        storeOK)
            ELSE /\ req' = [req EXCEPT ![r] = [rq EXCEPT !.pc = "getproject", !.authz = err]]
                 /\ UNCHANGED <<stdout, accessLogs>>
    /\ UNCHANGED probe
    /\ UNCHANGED <<now, keySet, lastFetch, keySetMutex, backend, rules>>

(***************************************************************************)
(* Client.CreateRobotAccount: the project lookup, then the creation.       *)
(***************************************************************************)
LookupProject(r) ==
    /\ req[r].pc = "getproject"
    /\ \E resp \in GetProjectResponses :
         LET rq == Step(r, "GetProject") IN
         IF GetProject(resp) # ""
         THEN Finish(r, rq, OnMintError(r, Text("failed to get project", {})), FALSE)
         ELSE /\ req' = [req EXCEPT ![r] = [rq EXCEPT !.pc = "create"]]
              /\ UNCHANGED <<stdout, accessLogs>>
    /\ UNCHANGED probe
    /\ UNCHANGED <<now, keySet, lastFetch, keySetMutex, backend, rules>>

CreateRobot(r) ==
    /\ req[r].pc = "create"
    /\ \E resp \in CreateRobotResponses, storeOK \in BOOLEAN :
         LET robotName == <<"ci-temp", req[r].job, now>>
             rq == Step(r, "CreateRobot")
             res == CreateRobotResult(resp, r, robotName, RobotTTLMinutes, now)
         IN IF res.err # NoText
            THEN Finish(r, rq, OnMintError(r, res.err), FALSE)
            ELSE Finish(r, rq,
                        OnIssued(r, backend = "store", rq.project, rq.harbor, rq.perm,
                                 res.robot, rq.job),
                        storeOK)
    /\ UNCHANGED probe
    /\ UNCHANGED <<now, keySet, lastFetch, keySetMutex, backend, rules>>

(***************************************************************************)
(* The environment: time passes.                                           *)
(***************************************************************************)
Tick ==
    /\ now < MaxTicks * TickMinutes
    /\ now' = now + TickMinutes
    /\ UNCHANGED probe
    /\ UNCHANGED <<keySet, lastFetch, keySetMutex, backend, rules, req,
                   stdout, accessLogs>>

Next ==
    \/ \E r \in Reqs : Receive(r)
    \/ \E r \in Reqs : RefreshCheck(r)
    \/ \E r \in Reqs : RefreshLock(r)
    \/ \E r \in Reqs : RefreshFetched(r)
    \/ \E r \in Reqs : RefreshFailed(r)
    \/ \E r \in Reqs : Verify(r)
    \/ \E r \in Reqs : ParseBody(r)
    \/ \E r \in Reqs : Authorize(r)
    \/ \E r \in Reqs : LookupProject(r)
    \/ \E r \in Reqs : CreateRobot(r)
    \/ Tick

Spec == Init /\ [][Next]_vars

(***************************************************************************)
(* The pipeline with its scheduling: the goroutine of a request that can   *)
(* take its next step takes it.  jwk.Fetch runs under a context that times *)
(* out after 10 seconds and the Harbor client's http.Client after 30, so a *)
(* fetch and a registry call return; sync.RWMutex lets a waiting goroutine *)
(* in once the lock is free; the policy store and the access-log store are *)
(* taken to answer.  No request has to arrive, and no time has to pass.    *)
(***************************************************************************)
\* a step of the handler of request r after the request arrived
HandlerStep(r) ==
    \/ RefreshCheck(r) \/ RefreshLock(r) \/ RefreshFetched(r) \/ RefreshFailed(r)
    \/ Verify(r) \/ ParseBody(r) \/ Authorize(r) \/ LookupProject(r)
    \/ CreateRobot(r)
Fairness == WF_vars(\E r \in Reqs : HandlerStep(r))
FairSpec == Init /\ [][Next]_vars /\ Fairness

(***************************************************************************)
(* Functions of the program applied on their own: each specification draws *)
(* the inputs of one function, and its action applies the function.  The   *)
(* pipeline's variables stay as they are at start.                         *)
(***************************************************************************)
pipeline == <<now, keySet, lastFetch, keySetMutex, backend, rules, req,
              stdout, accessLogs>>
Idle ==
    /\ now = 0
    /\ keySet = [nil |-> TRUE, keys |-> {}]
    /\ lastFetch = 0
    /\ keySetMutex = 0
    /\ backend = "config"
    /\ rules = PolicyRules
    /\ req = [r \in Reqs |-> NewRequest]
    /\ stdout = EmptyBag
    /\ accessLogs = EmptyBag

\* Validator.ValidateToken on any token, any fetched key set, at any instant
TokenAlgs == RegisteredAlgs \cup {"XS256"}
Instants == {k * TickMinutes : k \in 0..MaxTicks}
AnyTokens(t) ==
    {tok \in [form : {"jwt", "garbage"}, alg : TokenAlgs, kid : Kids \cup {None},
              sigOK : BOOLEAN, iss : {GoodIssuer, BadIssuer},
              aud : {<<"broker">>, <<"other">>}, hasExp : BOOLEAN,
              exp : {0, t - TickMinutes, t, t + TickMinutes},
              project_path : {"teamA/app"}, job_id : {"job-1"}] :
        tok.hasExp \/ tok.exp = 0}
KeySets == {{}, {"k1"}, {"k1", "k2"}}

TokenInit ==
    /\ Idle
    /\ \E t \in Instants : \E tok \in AnyTokens(t), ks \in KeySets :
          probe = [kind |-> "token", tok |-> tok, keys |-> ks, t |-> t,
                   applied |-> FALSE, res |-> [err |-> "", cause |-> ""]]
ApplyValidateToken ==
    /\ probe.kind = "token" /\ ~probe.applied
    /\ probe' = [probe EXCEPT !.applied = TRUE,
                               !.res = ValidateParsed(probe.tok, probe.keys, probe.t)]
    /\ UNCHANGED pipeline
TokenNext == ApplyValidateToken
TokenSpec == TokenInit /\ [][TokenNext]_vars

\* Engine.AuthorizeRequest, and the handler's branch on its result, on any
\* rules, either backend and any request.  The configuration holds at least
\* one rule (Config.Validate); policy_rules.gitlab_project is UNIQUE.
RuleValues ==
    [GitLabProject : GitLabProjects,
     HarborProjects : {<<"images-a">>, <<"images-a", "images-b">>},
     AllowedPerms : {<<"read">>, <<"read", "write">>, <<"read-write">>}]
RuleLists == UNION {[1..n -> RuleValues] : n \in 0..MaxRules}
ValidRules(b, rs) ==
    IF b = "store"
    THEN \A i, j \in 1..Len(rs) : rs[i].GitLabProject = rs[j].GitLabProject => i = j
    ELSE Len(rs) >= 1

PolicyInit ==
    /\ Idle
    /\ \E b \in {"config", "store"}, rs \in RuleLists, dbErr \in BOOLEAN,
          gp \in GitLabProjects, hp \in {"images-a", "images-b", "images-c"},
          perm \in PermissionValues :
          /\ ValidRules(b, rs)
          /\ dbErr => b = "store"
          /\ probe = [kind |-> "policy", backend |-> b, rules |-> rs, dbErr |-> dbErr,
                      gp |-> gp, hp |-> hp, perm |-> perm, applied |-> FALSE,
                      res |-> "", effects |-> <<>>]
ApplyAuthorizeRequest ==
    /\ probe.kind = "policy" /\ ~probe.applied
    /\ LET err == AuthorizeRequest(probe.backend, probe.rules, probe.dbErr,
                                   probe.gp, probe.hp, probe.perm)
       IN probe' = [probe EXCEPT
                       !.applied = TRUE,
                       !.res = err,
                       !.effects = IF Denied(err)
                                   THEN OnDenied(1, probe.backend = "store", probe.gp,
                                                 probe.hp, probe.perm, err)
                                   ELSE <<>>]
    /\ UNCHANGED pipeline
PolicyNext == ApplyAuthorizeRequest
PolicySpec == PolicyInit /\ [][PolicyNext]_vars

\* The request Client.CreateRobotAccount builds, for any lifetime.
DurationInit ==
    /\ Idle
    /\ \E ttl \in (-MaxTTL)..MaxTTL :
          probe = [kind |-> "duration", ttl |-> ttl, applied |-> FALSE,
                   request |-> CreateRobotRequest("", <<>>, "", 0)]
ApplyCreateRobotRequest ==
    /\ probe.kind = "duration" /\ ~probe.applied
    /\ probe' = [probe EXCEPT
                    !.applied = TRUE,
                    !.request = CreateRobotRequest("images-a", <<"ci-temp", "job-1", 0>>,
                                                   "read", probe.ttl)]
    /\ UNCHANGED pipeline
DurationNext == ApplyCreateRobotRequest
DurationSpec == DurationInit /\ [][DurationNext]_vars

\* HandleToken from the validation of the body's permission to the response,
\* for a request that is authorized: any permission value, any configured
\* lifetime, any instant and any answer of the registry to the creation.
TTLValues == {RobotTTLMinutes, MinutesPerDay, MinutesPerDay + 60, 2 * MinutesPerDay}
MintPermissions == PermissionValues \cup {"admin", "pull"}
NoRequest == CreateRobotRequest("", <<>>, "", 0)

MintInit ==
    /\ Idle
    /\ \E ttl \in TTLValues, t \in Instants, perm \in MintPermissions,
          resp \in CreateRobotResponses :
          probe = [kind |-> "mint", ttl |-> ttl, t |-> t, perm |-> perm, resp |-> resp,
                   applied |-> FALSE, sent |-> FALSE, request |-> NoRequest,
                   robot |-> NoRobot, effects |-> <<>>]
ApplyMint ==
    /\ probe.kind = "mint" /\ ~probe.applied
    /\ LET body == Body(TRUE, "images-a", probe.perm)
           robotName == <<"ci-temp", "job-1", probe.t>>
           res == CreateRobotResult(probe.resp, 1, robotName, probe.ttl, probe.t)
       IN IF OnBody(body) # <<>>
          THEN probe' = [probe EXCEPT !.applied = TRUE, !.effects = OnBody(body)]
          ELSE probe' = [probe EXCEPT
                           !.applied = TRUE,
                           !.sent = TRUE,
                           !.request = CreateRobotRequest("images-a", robotName,
                                                          probe.perm, probe.ttl),
                           !.robot = res.robot,
                           !.effects =
                               IF res.err # NoText
                               THEN OnMintError(1, res.err)
                               ELSE OnIssued(1, TRUE, "teamA/app", "images-a",
                                             probe.perm, res.robot, "job-1")]
    /\ UNCHANGED pipeline
MintNext == ApplyMint
MintSpec == MintInit /\ [][MintNext]_vars

(***************************************************************************)
(* Validator.refreshJWKS and the key function on their own: the callers of *)
(* ValidateToken share one validator, each caller is a goroutine, and the  *)
(* two assignments of the write-locked section are separate steps.  A key  *)
(* set carries the number of the fetch that returned it, and so does the   *)
(* instant stored with it.                                                 *)
(***************************************************************************)
\* number of times the clock advances while the validator is called
RefreshTicks == 2
\* the key sets the issuer's JWKS endpoint serves, one per fetch
RemoteKeySets == {{"k1"}, {"k1", "k2"}}
ErrRefresh == "failed to refresh JWKS"

\* what a caller reads of the validator under a lock
NoObservation == [nil |-> TRUE, set |-> 0, stamp |-> 0, age |-> -1]
Observe(ks, lf, t) ==
    [nil |-> ks.nil, set |-> ks.fetch, stamp |-> lf.fetch, age |-> t - lf.at]

\* a call of ValidateToken: first and second are what its two checks read,
\* locked whether it took the write lock, fetches the calls of jwk.Fetch it
\* made, used the key set its key function looked the kid up in
NewCall ==
    [pc |-> "check", first |-> NoObservation, second |-> NoObservation,
     locked |-> FALSE, fetches |-> 0, kid |-> "",
     used |-> [set |-> 0, keys |-> {}], err |-> ""]

\* the tokens the callers present: valid ones, with either key id
CallerTokens(t) ==
    {[v EXCEPT !.kid = k] :
        k \in Kids,
        v \in {w \in ValidTokens(t) : w.project_path = "teamA/app"
                                        /\ w.aud = <<"broker">>}}

\* a variant of RLock that does not wait for the writer
RLockable_Always(writer) == TRUE
\* sync.RWMutex: RLock returns while no goroutine holds the lock for writing
RLockable(writer) == writer = 0
\* sync.RWMutex: Lock returns while no goroutine holds the lock (a read lock
\* is taken and released within one step, so none is held between steps)
Lockable(writer) == writer = 0

RefreshInit ==
    /\ Idle
    /\ probe = [kind |-> "refresh", now |-> 0, ticks |-> 0,
                keySet |-> [nil |-> TRUE, keys |-> {}, fetch |-> 0],
                lastFetch |-> [at |-> 0, fetch |-> 0],
                writer |-> 0, fetches |-> 0, attempts |-> 0,
                calls |-> [c \in Reqs |-> NewCall]]

\* refreshJWKS: RLock, needsRefresh, RUnlock
FirstCheck(c) ==
    /\ probe.kind = "refresh"
    /\ probe.calls[c].pc = "check"
    /\ RLockable(probe.writer)
    /\ probe' = [probe EXCEPT
                   !.calls[c].first = Observe(probe.keySet, probe.lastFetch, probe.now),
                   !.calls[c].pc =
                       IF NeedsRefresh(probe.keySet, probe.lastFetch.at, probe.now)
                       THEN "lock" ELSE "keyfunc"]
    /\ UNCHANGED pipeline

\* refreshJWKS: Lock, the second check, and either the return (with the
\* deferred Unlock) or the call of jwk.Fetch.  attempts counts the fetches
\* started since a key set was last stored.
SecondCheck(c) ==
    /\ probe.kind = "refresh"
    /\ probe.calls[c].pc = "lock"
    /\ Lockable(probe.writer)
    /\ LET seen == Observe(probe.keySet, probe.lastFetch, probe.now) IN
       IF NeedsRefresh(probe.keySet, probe.lastFetch.at, probe.now)
       THEN probe' = [probe EXCEPT
                        !.writer = c,
                        !.fetches = @ + 1,
                        !.attempts = @ + 1,
                        !.calls[c].second = seen,
                        !.calls[c].locked = TRUE,
                        !.calls[c].fetches = @ + 1,
                        !.calls[c].pc = "fetch"]
       ELSE probe' = [probe EXCEPT
                        !.calls[c].second = seen,
                        !.calls[c].locked = TRUE,
                        !.calls[c].pc = "keyfunc"]
    /\ UNCHANGED pipeline

\* jwk.Fetch returned a key set: v.keySet = keySet
StoreKeySet(c) ==
    /\ probe.kind = "refresh"
    /\ probe.calls[c].pc = "fetch"
    /\ probe.writer = c
    /\ \E ks \in RemoteKeySets :
          probe' = [probe EXCEPT
                      !.keySet = [nil |-> FALSE, keys |-> ks, fetch |-> probe.fetches],
                      !.calls[c].pc = "stamp"]
    /\ UNCHANGED pipeline

\* v.lastFetch = time.Now(), return nil and the deferred Unlock
StoreLastFetch(c) ==
    /\ probe.kind = "refresh"
    /\ probe.calls[c].pc = "stamp"
    /\ probe.writer = c
    /\ probe' = [probe EXCEPT
                   !.lastFetch = [at |-> probe.now, fetch |-> probe.keySet.fetch],
                   !.writer = 0,
                   !.attempts = 0,
                   !.calls[c].pc = "keyfunc"]
    /\ UNCHANGED pipeline

\* jwk.Fetch failed or timed out: the error is returned, with the deferred
\* Unlock, and ValidateToken returns it
FetchError(c) ==
    /\ probe.kind = "refresh"
    /\ probe.calls[c].pc = "fetch"
    /\ probe.writer = c
    /\ probe' = [probe EXCEPT
                   !.writer = 0,
                   !.calls[c].err = ErrRefresh,
                   !.calls[c].pc = "done"]
    /\ UNCHANGED pipeline

\* jwt.ParseWithClaims and the checks after it: the key function looks the
\* token's kid up in v.keySet under the read lock
ParseToken(c) ==
    /\ probe.kind = "refresh"
    /\ probe.calls[c].pc = "keyfunc"
    /\ RLockable(probe.writer)
    /\ \E tok \in CallerTokens(probe.now) :
          probe' = [probe EXCEPT
                      !.calls[c].kid = tok.kid,
                      !.calls[c].used = [set |-> probe.keySet.fetch,
                                         keys |-> probe.keySet.keys],
                      !.calls[c].err =
                          ValidateParsed(tok, probe.keySet.keys, probe.now).cause,
                      !.calls[c].pc = "done"]
    /\ UNCHANGED pipeline

\* time passes: a minute, or the freshness window
RefreshTick ==
    /\ probe.kind = "refresh"
    /\ probe.ticks < RefreshTicks
    /\ \E d \in {1, JWKSMaxAge} :
          probe' = [probe EXCEPT !.now = @ + d, !.ticks = @ + 1]
    /\ UNCHANGED pipeline

RefreshNext ==
    \/ \E c \in Reqs : FirstCheck(c)
    \/ \E c \in Reqs : SecondCheck(c)
    \/ \E c \in Reqs : StoreKeySet(c)
    \/ \E c \in Reqs : StoreLastFetch(c)
    \/ \E c \in Reqs : FetchError(c)
    \/ \E c \in Reqs : ParseToken(c)
    \/ RefreshTick
RefreshSpec == RefreshInit /\ [][RefreshNext]_vars

(***************************************************************************)
(* The policy source on its own: the configuration file is loaded and      *)
(* validated at start; with the database enabled the rules are the rows of *)
(* policy_rules, changed through the policy API (DB.CreatePolicy,          *)
(* DB.UpdatePolicy, DB.DeletePolicy).                                      *)
(***************************************************************************)
\* number of operations of the policy API
MaxOps == 3
\* the rules a configuration file may hold: well-formed ones, one without
\* gitlab_project and lists, one with a permission outside the three values
ConfigRuleValues ==
    RuleValues
    \cup {EmptyRule,
          [GitLabProject |-> "teamA/app", HarborProjects |-> <<"images-a">>,
           AllowedPerms |-> <<"admin">>]}
ConfigRuleLists == UNION {[1..n -> ConfigRuleValues] : n \in 0..MaxRules}

\* the loop of Config.Validate over the policy rules, from rule i on
RECURSIVE ValidateRulesFrom(_, _)
ValidateRulesFrom(policies, i) ==
    IF i > Len(policies) THEN ""
    ELSE IF policies[i].GitLabProject = "" THEN "gitlab_project is required"
    ELSE IF Len(policies[i].HarborProjects) = 0 THEN "harbor_projects must not be empty"
    ELSE IF Len(policies[i].AllowedPerms) = 0 THEN "allowed_permissions must not be empty"
    ELSE IF \E k \in 1..Len(policies[i].AllowedPerms) :
                policies[i].AllowedPerms[k] \notin {"read", "write", "read-write"}
         THEN "invalid permission"
    ELSE ValidateRulesFrom(policies, i + 1)

\* Config.Validate, as far as the policy rules go: "" or the error
Validate(dbEnabled, policies) ==
    IF ~dbEnabled /\ Len(policies) = 0
    THEN "at least one policy rule is required when database is disabled"
    ELSE ValidateRulesFrom(policies, 1)

\* a row of policy_rules
Row(id, rule) ==
    [ID |-> id, GitLabProject |-> rule.GitLabProject,
     HarborProjects |-> rule.HarborProjects, AllowedPerms |-> rule.AllowedPerms]
\* gitlab_project VARCHAR(500) NOT NULL UNIQUE: whether rows, with the row of
\* id `except` left out, hold no row of the project
UniqueViolation(rows, except, gitlabProject) ==
    \E i \in 1..Len(rows) :
        rows[i].ID # except /\ rows[i].GitLabProject = gitlabProject

SourceInit ==
    /\ Idle
    /\ \E b \in {"config", "store"}, cfg \in ConfigRuleLists :
          probe = [kind |-> "source", backend |-> b, config |-> cfg,
                   phase |-> "load", rules |-> <<>>, nextID |-> 1, ops |-> 0,
                   err |-> ""]

\* main: config.Load with Validate, then NewEngine over the configured rules
\* or NewEngineWithStore over the table the migration created; the file is
\* not read again
LoadConfig ==
    /\ probe.kind = "source"
    /\ probe.phase = "load"
    /\ LET err == Validate(probe.backend = "store", probe.config) IN
       probe' = [probe EXCEPT
                   !.err = err,
                   !.config = <<>>,
                   !.phase = IF err = "" THEN "serving" ELSE "exit",
                   !.rules = IF err = "" /\ probe.backend = "config"
                             THEN probe.config ELSE <<>>]
    /\ UNCHANGED pipeline

\* DB.CreatePolicy: INSERT INTO policy_rules
CreatePolicy(rule) ==
    /\ probe.kind = "source"
    /\ probe.phase = "serving" /\ probe.backend = "store"
    /\ probe.ops < MaxOps
    /\ IF UniqueViolation(probe.rules, 0, rule.GitLabProject)
       THEN probe' = [probe EXCEPT !.ops = @ + 1, !.err = "failed to create policy"]
       ELSE probe' = [probe EXCEPT
                        !.ops = @ + 1,
                        !.err = "",
                        !.rules = Append(@, Row(probe.nextID, rule)),
                        !.nextID = @ + 1]
    /\ UNCHANGED pipeline

\* DB.UpdatePolicy: UPDATE policy_rules ... WHERE id = $4
UpdatePolicy(id, rule) ==
    /\ probe.kind = "source"
    /\ probe.phase = "serving" /\ probe.backend = "store"
    /\ probe.ops < MaxOps
    /\ IF ~\E i \in 1..Len(probe.rules) : probe.rules[i].ID = id
       THEN probe' = [probe EXCEPT !.ops = @ + 1, !.err = "policy not found"]
       ELSE IF UniqueViolation(probe.rules, id, rule.GitLabProject)
       THEN probe' = [probe EXCEPT !.ops = @ + 1, !.err = "failed to update policy"]
       ELSE probe' = [probe EXCEPT
                        !.ops = @ + 1,
                        !.err = "",
                        !.rules = [i \in 1..Len(@) |->
                                     IF @[i].ID = id THEN Row(id, rule) ELSE @[i]]]
    /\ UNCHANGED pipeline

\* DB.DeletePolicy: DELETE FROM policy_rules WHERE id = $1
DeletePolicy(id) ==
    /\ probe.kind = "source"
    /\ probe.phase = "serving" /\ probe.backend = "store"
    /\ probe.ops < MaxOps
    /\ IF ~\E i \in 1..Len(probe.rules) : probe.rules[i].ID = id
       THEN probe' = [probe EXCEPT !.ops = @ + 1, !.err = "policy not found"]
       ELSE LET Other(row) == row.ID # id IN
            probe' = [probe EXCEPT !.ops = @ + 1, !.err = "",
                                   !.rules = SelectSeq(@, Other)]
    /\ UNCHANGED pipeline

SourceNext ==
    \/ LoadConfig
    \/ \E rule \in RuleValues : CreatePolicy(rule)
    \/ \E id \in 1..MaxOps, rule \in RuleValues : UpdatePolicy(id, rule)
    \/ \E id \in 1..MaxOps : DeletePolicy(id)
SourceSpec == SourceInit /\ [][SourceNext]_vars

(***************************************************************************)
(* Client.CreateRobotAccount call by call, and the handler's branch on its *)
(* result, for a request that is authorized: the lookup of the project,    *)
(* then the creation of the account.  Each call of the registry is a step. *)
(***************************************************************************)
ErrGetProject == "failed to get project"

ClientInit ==
    /\ Idle
    /\ \E ttl \in TTLValues, t \in Instants, perm \in PermissionValues :
          probe = [kind |-> "client", ttl |-> ttl, t |-> t, perm |-> perm,
                   pc |-> "lookup", calls |-> <<>>,
                   lookup |-> [net |-> "", status |-> 0, body |-> ""],
                   err |-> "", cause |-> "", request |-> NoRequest,
                   effects |-> <<>>]

\* c.GetProject(projectName) and the return of its error
SendLookup ==
    /\ probe.kind = "client"
    /\ probe.pc = "lookup"
    /\ \E resp \in GetProjectResponses :
          LET sent == Append(probe.calls, "GetProject") IN
          IF GetProject(resp) # ""
          THEN probe' = [probe EXCEPT
                           !.calls = sent,
                           !.lookup = resp,
                           !.err = ErrGetProject,
                           !.cause = GetProject(resp),
                           !.effects = OnMintError(1, Text(ErrGetProject, {})),
                           !.pc = "done"]
          ELSE probe' = [probe EXCEPT !.calls = sent, !.lookup = resp,
                                      !.pc = "create"]
    /\ UNCHANGED pipeline

\* the POST of the account, and the handler's branch on the result
SendCreate ==
    /\ probe.kind = "client"
    /\ probe.pc = "create"
    /\ \E resp \in CreateRobotResponses :
          LET robotName == <<"ci-temp", "job-1", probe.t>>
              res == CreateRobotResult(resp, 1, robotName, probe.ttl, probe.t)
          IN probe' = [probe EXCEPT
                         !.calls = Append(@, "CreateRobot"),
                         !.request = CreateRobotRequest("images-a", robotName,
                                                        probe.perm, probe.ttl),
                         !.err = res.err.msg,
                         !.cause = res.err.msg,
                         !.effects =
                             IF res.err # NoText
                             THEN OnMintError(1, res.err)
                             ELSE OnIssued(1, TRUE, "teamA/app", "images-a",
                                           probe.perm, res.robot, "job-1"),
                         !.pc = "done"]
    /\ UNCHANGED pipeline

ClientNext == SendLookup \/ SendCreate
ClientSpec == ClientInit /\ [][ClientNext]_vars

(***************************************************************************)
(* Properties.                                                             *)
(***************************************************************************)
Occurs(h, ev) == \E i \in 1..Len(h) : h[i] = ev
Count(h, ev) == Cardinality({i \in 1..Len(h) : h[i] = ev})
\* every occurrence of b in h has an occurrence of a before it
Precedes(h, a, b) ==
    \A j \in 1..Len(h) : h[j] = b => \E i \in 1..(j - 1) : h[i] = a

\* the number of elements of bag B that are in the set S
RECURSIVE CopiesOf(_, _)
CopiesOf(S, B) ==
    IF S = {} THEN 0
    ELSE LET e == CHOOSE x \in S : TRUE IN CopiesIn(e, B) + CopiesOf(S \ {e}, B)

\* the log lines, audit lines and store rows of request r
LinesOf(r) == {e \in BagToSet(stdout) : e.req = r}
AuditLinesOf(r) == {e \in LinesOf(r) : e.level = "AUDIT"}
RowsOf(r) == {e \in BagToSet(accessLogs) : e.req = r}
NumAudits(r) == CopiesOf(AuditLinesOf(r), stdout)
NumRows(r) == CopiesOf(RowsOf(r), accessLogs)

Done(r) == req[r].pc = "done"
RegistryTouched(r) ==
    \/ req[r].pc \in {"getproject", "create"}
    \/ Occurs(req[r].hist, "GetProject")
    \/ Occurs(req[r].hist, "CreateRobot")
\* the request's token failed one of the verifier's checks
TokenRejected(r) ==
    req[r].cause \notin {"", FetchFailedNoKeySet, FetchFailedStale}
VerificationFailed(r) == req[r].cause # ""
AuthorizationDenied(r) == req[r].authz \notin {"none", ""}
Allowed(r) == req[r].authz = ""
MintFailed(r) == Allowed(r) /\ Done(r) /\ req[r].resp.status # StatusOK

\* C1: a request touches the registry (project lookup or account creation)
\* only after its own token was verified and the policy decision for
\* (claims.project_path, harbor_project, permissions) was allow; a request
\* whose verification failed or whose authorization was denied causes no
\* registry call and receives no credential.
C1_RegistryOnlyAfterAllow ==
    \A r \in Reqs :
        /\ RegistryTouched(r) =>
              /\ req[r].verified
              /\ Allowed(r)
              /\ Len(req[r].asked) = 3
              /\ AuthorizeRequest(backend, rules, FALSE, req[r].asked[1],
                                  req[r].asked[2], req[r].asked[3]) = ""
              /\ Precedes(req[r].hist, "ValidateToken", "AuthorizeRequest")
              /\ Precedes(req[r].hist, "AuthorizeRequest", "GetProject")
              /\ Precedes(req[r].hist, "GetProject", "CreateRobot")
        /\ (VerificationFailed(r) \/ AuthorizationDenied(r)) =>
              /\ ~RegistryTouched(r)
              /\ Done(r)
              /\ req[r].resp.status \notin {0, StatusOK}
              /\ req[r].resp.password = {}
              /\ req[r].resp.secrets = {}
C1_Witness ==
    \E r, q \in Reqs :
        /\ Occurs(req[r].hist, "CreateRobot") /\ req[r].resp.status = StatusOK
        /\ AuthorizationDenied(q) /\ Done(q)

\* C2 as stated: a request with malformed input (undecodable body, missing
\* harbor_project, missing permissions, or a permissions value outside read,
\* write, read-write) is rejected as bad request before the Token Verifier is
\* invoked and before any external call, and writes no audit record.
C2_RejectedBeforeVerifier ==
    \A r \in Reqs :
        (req[r].malformed /\ Done(r)) =>
            /\ req[r].resp.status = StatusBadRequest
            /\ ~Occurs(req[r].hist, "ValidateToken")
            /\ NumAudits(r) = 0

\* C2, amended: a request with malformed input whose token verified is
\* rejected as bad request after the Token Verifier ran and before any policy
\* lookup or registry call; it writes no log line, no audit record and no
\* store row; and only malformed input is answered with bad request.
C2_RejectedAfterVerifier ==
    \A r \in Reqs :
        /\ req[r].malformed =>
              /\ Done(r)
              /\ req[r].verified
              /\ req[r].resp.status = StatusBadRequest
              /\ req[r].resp.error # ""
              /\ req[r].hist = <<"ValidateToken", "respond">>
              /\ req[r].authz = "none"
              /\ LinesOf(r) = {}
              /\ RowsOf(r) = {}
        /\ req[r].resp.status = StatusBadRequest => req[r].malformed
C2_Witness ==
    \E r \in Reqs :
        /\ req[r].malformed
        /\ req[r].resp = respondError(StatusBadRequest,
                                      Text(ValidatePermission("admin"), {}))
        /\ ~keySet.nil

\* C3: when the policy decision is deny, the handler writes exactly one
\* "Request denied" audit record, carrying the target scope, the requested
\* permission and the reason, before the forbidden response is sent; it
\* performs no mint and writes no "Token issued" record for the request.
C3_DeniedAuditedOnce ==
    \A r \in Reqs :
        AuthorizationDenied(r) =>
            /\ Done(r)
            /\ req[r].resp =
                  respondError(StatusForbidden, Text("access denied by policy", {}))
            /\ NumAudits(r) = 1
            /\ \A e \in AuditLinesOf(r) :
                  /\ e.message = "Request denied"
                  /\ <<e.gitlab_project, e.harbor_project, e.permission>> = req[r].asked
                  /\ e.error = req[r].authz
            /\ Count(req[r].hist, "Request denied") = 1
            /\ Precedes(req[r].hist, "Request denied", "respond")
            /\ ~Occurs(req[r].hist, "Token issued")
            /\ ~RegistryTouched(r)
            /\ NumRows(r) <= 1
            /\ \A e \in RowsOf(r) : e.level = "denied" /\ e.error = req[r].authz
C3_Witness ==
    \E r \in Reqs :
        /\ req[r].authz = ErrPermission
        /\ req[r].resp.status = StatusForbidden
        /\ NumAudits(r) = 1
        /\ NumRows(r) = 1

Completed(r) == req[r].resp.status = StatusOK
Forbidden(r) == req[r].resp.status = StatusForbidden
AllAuditLines == {e \in BagToSet(stdout) : e.level = "AUDIT"}
AllIssuedLines == {e \in AllAuditLines : e.message = "Token issued"}

\* C4: every successful mint writes exactly one "Token issued" audit record
\* and returns the credential; identical authorized requests are not
\* deduplicated: each completed request made its own account-creation call
\* and there are as many issued records as completed requests; and in every
\* state the number of audit records is the number of requests that ended
\* forbidden or completed.
C4_IssuedAuditedOnce ==
    /\ \A r \in Reqs :
          Completed(r) =>
              /\ Done(r) /\ Allowed(r)
              /\ NumAudits(r) = 1
              /\ \A e \in AuditLinesOf(r) :
                    /\ e.message = "Token issued"
                    /\ <<e.gitlab_project, e.harbor_project, e.permission>> = req[r].asked
                    /\ e.robot_name = req[r].resp.username
                    /\ e.expires_at = req[r].resp.expires_at
              /\ req[r].resp.password = {r}
              /\ Count(req[r].hist, "CreateRobot") = 1
              /\ Count(req[r].hist, "Token issued") = 1
              /\ Precedes(req[r].hist, "CreateRobot", "Token issued")
              /\ NumRows(r) <= 1
              /\ \A e \in RowsOf(r) : e.level = "success"
    /\ CopiesOf(AllIssuedLines, stdout) = Cardinality({r \in Reqs : Completed(r)})
    /\ CopiesOf(AllAuditLines, stdout) =
          Cardinality({r \in Reqs : Forbidden(r) \/ Completed(r)})
C4_Witness ==
    \E r, q \in Reqs :
        /\ r # q
        /\ Completed(r) /\ Completed(q)
        /\ req[r].asked = req[q].asked
        /\ CopiesOf(AllIssuedLines, stdout) = 2

\* C5: a request whose token fails verification (bad signature, unknown key,
\* untrusted issuer, wrong audience, expired) ends as unauthenticated and
\* writes no audit record, neither issued nor denied, and no store row.
C5_UnauthenticatedNotAudited ==
    \A r \in Reqs :
        TokenRejected(r) =>
            /\ Done(r)
            /\ req[r].resp.status = StatusUnauthorized
            /\ NumAudits(r) = 0
            /\ NumRows(r) = 0
            /\ ~Occurs(req[r].hist, "Request denied")
            /\ ~Occurs(req[r].hist, "Token issued")
C5_Witness ==
    \E r, q \in Reqs :
        /\ req[r].cause = "invalid audience"
        /\ req[r].resp.status = StatusUnauthorized
        /\ req[q].cause = "signature is invalid"
        /\ Done(q)

\* C6: when the minter fails after an allow decision (the project lookup
\* fails, the registry answers with an error, the transport fails or times
\* out), the request ends as internal error and no audit record is written
\* for it.
C6_MintFailureNotAudited ==
    \A r \in Reqs :
        MintFailed(r) =>
            /\ req[r].resp.status = StatusInternalServerError
            /\ req[r].resp.error = "failed to create credentials"
            /\ req[r].resp.password = {}
            /\ NumAudits(r) = 0
            /\ NumRows(r) = 0
            /\ \E e \in LinesOf(r) : e.level = "ERROR"
C6_Witness ==
    \E r, q \in Reqs :
        /\ MintFailed(r) /\ Occurs(req[r].hist, "CreateRobot")
        /\ MintFailed(q) /\ ~Occurs(req[q].hist, "CreateRobot")

\* C7: the minted secret reaches only the success response body: no audit
\* record (log line or store row), no operational log line and no error text
\* sent to the caller contains it, on any path, the registry-failure path
\* that embeds the registry's raw body in the error included.
C7_SecretOnlyInSuccessBody ==
    /\ \A e \in BagToSet(stdout) \cup BagToSet(accessLogs) : e.secrets = {}
    /\ \A r \in Reqs :
          /\ req[r].resp.secrets = {}
          /\ req[r].resp.password # {} => req[r].resp.status = StatusOK

\* C8: any two tokens that fail verification, whichever check failed
\* (algorithm, key lookup, signature, issuer, audience, expiry), get the same
\* response: unauthenticated with exactly the message "invalid or expired
\* token".
C8_SameResponseForEveryFailure ==
    \A r, q \in Reqs :
        (TokenRejected(r) /\ TokenRejected(q)) =>
            /\ req[r].resp = req[q].resp
            /\ req[r].resp =
                  respondError(StatusUnauthorized, Text("invalid or expired token", {}))
C8_Witness ==
    \E r, q \in Reqs :
        /\ Done(r) /\ Done(q)
        /\ req[r].cause = "unexpected signing method"
        /\ req[q].cause = "invalid issuer"

\* C9: a key-discovery fetch failure while no key set is cached is an
\* infrastructure failure: the request is rejected as an internal error, not
\* as an authentication failure.
C9_FetchFailureIsInternalError ==
    \A r \in Reqs :
        req[r].cause = FetchFailedNoKeySet =>
            /\ req[r].resp.status = StatusInternalServerError
            /\ req[r].resp.status # StatusUnauthorized

\* C10: a refresh failure while a previously fetched key set exists is not
\* fatal: the calling verification proceeds on the stale set, so no request is
\* rejected because a refresh failed while a key set was cached.
C10_StaleSetServes ==
    \A r \in Reqs : req[r].cause # FetchFailedStale

\* C11: every token whose signing algorithm is outside the RSA PKCS#1 v1.5
\* family (none, HMAC, ECDSA, RSA-PSS, an unknown one) fails verification
\* whatever its signature, its claims and the key set, and it is rejected
\* before any key is looked up in the key set.
C11_OtherAlgorithmsRejected ==
    (probe.kind = "token" /\ probe.applied /\ probe.tok.form = "jwt"
        /\ probe.tok.alg \notin {"RS256", "RS384", "RS512"}) =>
            /\ probe.res.err = "failed to parse token"
            /\ probe.res.cause \in {"unexpected signing method",
                                    "signing method (alg) is unavailable"}
            /\ ~KeyfuncReadsKeySet(probe.tok)
C11_Witness ==
    /\ probe.kind = "token" /\ probe.applied
    /\ probe.tok.form = "jwt" /\ probe.tok.alg = "HS256"
    /\ probe.tok.sigOK /\ probe.tok.kid \in probe.keys
    /\ probe.tok.iss = GoodIssuer /\ probe.tok.aud = <<"broker">>
    /\ probe.tok.hasExp /\ probe.tok.exp > probe.t
    /\ probe.res.cause = "unexpected signing method"

\* the policy engine was applied and its source answered
Decided == probe.kind = "policy" /\ probe.applied /\ ~probe.dbErr
Elems(seq) == {seq[i] : i \in 1..Len(seq)}
\* the rules of the caller project, and those of them that hold the scope
RulesFor(gp) == {i \in 1..Len(probe.rules) : probe.rules[i].GitLabProject = gp}
RulesWith(gp, hp) == {i \in RulesFor(gp) : hp \in Elems(probe.rules[i].HarborProjects)}

\* C12: when the policy source holds no rule for the caller project,
\* authorization denies with the reason "no policy found ...", with the
\* configured rules and with the store (which returns the empty rule) alike.
C12_NoRuleNoPolicy ==
    (Decided /\ RulesFor(probe.gp) = {}) =>
        /\ probe.res = ErrNoPolicy
        /\ probe.effects # <<>>
C12_Witness ==
    /\ Decided /\ probe.backend = "store"
    /\ probe.rules # <<>> /\ RulesFor(probe.gp) = {}
    /\ probe.res = ErrNoPolicy

\* C13 as stated: when a rule exists for the caller project and the scope is
\* not in its allowed scopes, authorization denies with a reason of its own
\* ("scope not allowed"), which is not the reason given when no rule exists.
C13_ScopeReasonDistinct ==
    (Decided /\ \E i \in RulesFor(probe.gp) : i \notin RulesWith(probe.gp, probe.hp)) =>
        /\ probe.res # ""
        /\ probe.res # ErrNoPolicy

\* C13, amended: when rules exist for the caller project and none of them
\* holds the scope, authorization denies whatever the permission, and the
\* reason is the "no policy found ..." reason given when no rule exists.
C13_ScopeDeniedAsNoPolicy ==
    (Decided /\ RulesFor(probe.gp) # {} /\ RulesWith(probe.gp, probe.hp) = {}) =>
        probe.res = ErrNoPolicy
C13_Witness ==
    /\ Decided /\ probe.backend = "config"
    /\ RulesFor(probe.gp) # {} /\ RulesWith(probe.gp, probe.hp) = {}
    /\ \A i \in RulesFor(probe.gp) : probe.perm \in Elems(probe.rules[i].AllowedPerms)
    /\ probe.res = ErrNoPolicy

\* the rule that decides a request: the first rule of the caller project that
\* holds the scope (the store holds one rule per project)
Deciding(gp, hp) == CHOOSE i \in RulesWith(gp, hp) : \A j \in RulesWith(gp, hp) : i <= j
DenialAudits == {i \in 1..Len(probe.effects) :
                    /\ probe.effects[i].kind = "log"
                    /\ probe.effects[i].entry.level = "AUDIT"
                    /\ probe.effects[i].entry.message = "Request denied"}

\* C14: authorization allows a request iff the caller project's rule holds
\* the requested scope and its allowed permissions hold the exact requested
\* value; a rule that allows read and write denies "read-write" with the
\* reason "permission not allowed" and one denied audit record, and allows
\* "write".
C14_ExactPermission ==
    Decided =>
        /\ probe.res = "" <=>
              /\ RulesWith(probe.gp, probe.hp) # {}
              /\ probe.perm \in
                    Elems(probe.rules[Deciding(probe.gp, probe.hp)].AllowedPerms)
        /\ (RulesWith(probe.gp, probe.hp) # {} /\ probe.res # "") =>
              /\ probe.res = ErrPermission
              /\ Cardinality(DenialAudits) = 1
              /\ \A i \in DenialAudits : probe.effects[i].entry.error = ErrPermission
        /\ (RulesWith(probe.gp, probe.hp) # {}
              /\ probe.rules[Deciding(probe.gp, probe.hp)].AllowedPerms = <<"read", "write">>)
              => /\ probe.perm = "read-write" => probe.res = ErrPermission
                 /\ probe.perm = "write" => probe.res = ""
C14_Witness ==
    /\ Decided
    /\ RulesWith(probe.gp, probe.hp) # {}
    /\ probe.rules[Deciding(probe.gp, probe.hp)].AllowedPerms = <<"read", "write">>
    /\ probe.perm = "read-write"
    /\ probe.res = ErrPermission
    /\ Cardinality(DenialAudits) = 1

Built == probe.kind = "duration" /\ probe.applied

\* C15: the duration in days submitted to the registry is 1 for every
\* lifetime under 1440 minutes, zero and negative ones included, and the
\* nearest whole day, half days rounding up, for every lifetime of 1440
\* minutes or more; it is always at least 1 and never -1.
C15_DurationRounding ==
    Built =>
        LET d == probe.request.Duration IN
        /\ probe.ttl < 1440 => d = 1
        /\ probe.ttl >= 1440 =>
              /\ 1440 * (2 * d - 1) <= 2 * probe.ttl
              /\ 2 * probe.ttl < 1440 * (2 * d + 1)
        /\ d >= 1
        /\ d # -1
C15_Witness ==
    /\ Built /\ probe.ttl = 2160 /\ probe.request.Duration = 2

\* C16 as stated: 5 minutes maps to 1 day, 1500 minutes to 2 days, exactly
\* 1440 minutes to 1 day.
C16_ExamplesAsStated ==
    Built =>
        /\ probe.ttl = 5 => probe.request.Duration = 1
        /\ probe.ttl = 1500 => probe.request.Duration = 2
        /\ probe.ttl = 1440 => probe.request.Duration = 1

\* C16, amended: 5 minutes maps to 1 day, 1500 minutes (1.04 days) to 1 day,
\* the nearest whole day, exactly 1440 minutes to 1 day, and 2160 minutes
\* (1.5 days) to 2 days.
C16_Examples ==
    Built =>
        /\ probe.ttl = 5 => probe.request.Duration = 1
        /\ probe.ttl = 1500 => probe.request.Duration = 1
        /\ probe.ttl = 1440 => probe.request.Duration = 1
        /\ probe.ttl = 2160 => probe.request.Duration = 2
C16_Witness ==
    /\ Built /\ probe.ttl = 1500 /\ probe.request.Duration = 1

\* the handler minted: the response sent carries a credential
MintResponse == probe.effects[Len(probe.effects)].resp
Minted ==
    /\ probe.kind = "mint" /\ probe.applied /\ probe.sent
    /\ MintResponse.status = StatusOK
IssuedEntries ==
    {probe.effects[i].entry : i \in {j \in 1..Len(probe.effects) :
                                        probe.effects[j].kind \in {"log", "store"}}}

\* C17: on every successful mint the expiry returned to the caller and
\* written to the issued audit record (log line and store row) is the instant
\* of the mint plus the configured lifetime in minutes, whatever the duration
\* in days submitted to the registry and whatever expiry the registry returned.
C17_ReportedExpiry ==
    Minted =>
        /\ MintResponse.expires_at = probe.t + probe.ttl
        /\ IssuedEntries # {}
        /\ \A e \in IssuedEntries : e.expires_at = probe.t + probe.ttl
C17_Witness ==
    /\ Minted
    /\ probe.ttl = RobotTTLMinutes
    /\ probe.request.Duration = 1
    /\ probe.resp.expires_at = [kind |-> "rfc3339", at |-> MinutesPerDay]
    /\ MintResponse.expires_at = probe.t + RobotTTLMinutes

\* C18: a minted credential expires after the configured TTL: the lifetime
\* applied at the registry (the duration submitted, in days) is the configured
\* robot_ttl_minutes, so that the registry's expiry is the reported expires_at.
C18_RegistryLifetimeIsTTL ==
    Minted =>
        /\ probe.request.Duration * MinutesPerDay = probe.ttl
        /\ probe.t + probe.request.Duration * MinutesPerDay = MintResponse.expires_at

\* C19: read gives pull; write gives pull and push; read-write gives pull and
\* push, the same actions as write; every permission ValidatePermission
\* accepts gives a non-empty action set, so no account-creation request is
\* sent with an empty access list.
C19_PermissionActions ==
    /\ (probe.kind = "mint" /\ probe.applied /\ probe.sent) =>
          /\ probe.perm = "read" => probe.request.Access = <<"pull">>
          /\ probe.perm = "write" => probe.request.Access = <<"pull", "push">>
          /\ probe.perm = "read-write" => probe.request.Access = <<"pull", "push">>
          /\ probe.request.Access # <<>>
          /\ probe.perm \in {"read", "write", "read-write"}
    /\ (probe.kind = "mint" /\ probe.applied /\ ~probe.sent) =>
          /\ probe.perm \notin {"read", "write", "read-write"}
          /\ MintResponse.status = StatusBadRequest
C19_Witness ==
    /\ Minted /\ probe.perm = "read-write"
    /\ probe.request.Access = <<"pull", "push">>

\* the access-log store was handed the row of request r and failed
StoreFailed(r) == Occurs(req[r].hist, "store") /\ NumRows(r) = 0

\* C20: the audit sink is best-effort: when the access-log store fails while
\* an issued or denied outcome is recorded, the request's outcome and response
\* are what they are when it succeeds: a minted request returns the
\* credential, a denied request returns forbidden, and the audit line is
\* still written to the log.
C20_SinkFailureHarmless ==
    \A r \in Reqs :
        StoreFailed(r) =>
            /\ Done(r)
            /\ backend = "store"
            /\ NumAudits(r) = 1
            /\ AuthorizationDenied(r) =>
                  req[r].resp = respondError(StatusForbidden,
                                             Text("access denied by policy", {}))
            /\ Allowed(r) =>
                  /\ req[r].resp.status = StatusOK
                  /\ req[r].resp.password = {r}
                  /\ req[r].resp.error = ""
C20_Witness ==
    \E r, q \in Reqs :
        /\ StoreFailed(r) /\ req[r].resp.status = StatusOK
        /\ StoreFailed(q) /\ req[q].resp.status = StatusForbidden


\* C21: key-set refresh is single-flight: among the callers that find the key
\* set missing or older than one hour, at most one fetch is started until a
\* key set is stored, whether or not that fetch succeeds.
C21_SingleFlight ==
    probe.kind = "refresh" => probe.attempts <= 1

\* C22: the key set and the instant of its fetch change only inside the
\* write-locked section of a fetch that succeeded, and both come from that
\* fetch once the lock is released; a failed fetch changes neither; the key
\* set never returns to nil and the instant never decreases; what a caller
\* reads under a lock is a key set and the instant of the same fetch.
C22_PairedOutsideWriteLock ==
    /\ probe.writer = 0 => probe.keySet.fetch = probe.lastFetch.fetch
    /\ \A c \in Reqs :
          /\ probe.calls[c].first.set = probe.calls[c].first.stamp
          /\ probe.calls[c].second.set = probe.calls[c].second.stamp
C22_ChangedByWriterOnly ==
    /\ (probe.keySet' # probe.keySet \/ probe.lastFetch' # probe.lastFetch) =>
          /\ probe.writer # 0
          /\ probe.calls[probe.writer].pc \in {"fetch", "stamp"}
          /\ probe.calls[probe.writer].fetches = 1
          /\ probe.calls'[probe.writer].err = ""
    /\ \A c \in Reqs :
          (probe.calls[c].err = "" /\ probe.calls'[c].err = ErrRefresh) =>
              /\ probe.keySet' = probe.keySet
              /\ probe.lastFetch' = probe.lastFetch
              /\ probe.writer' = 0
    /\ ~probe.keySet.nil => ~probe.keySet'.nil
    /\ probe.lastFetch'.at >= probe.lastFetch.at
C22_KeySetAndInstantTogether ==
    []C22_PairedOutsideWriteLock /\ [][C22_ChangedByWriterOnly]_vars
\* two fetches succeeded, the second replacing the key set of the first, which
\* a caller had read, with its instant, when it was older than one hour
C22_Witness ==
    /\ probe.kind = "refresh"
    /\ probe.writer = 0
    /\ probe.keySet.fetch = 2
    /\ probe.lastFetch.at > JWKSMaxAge
    /\ \A c \in Reqs : probe.calls[c].fetches = 1 => probe.calls[c].err # ErrRefresh
    /\ \E c \in Reqs :
          /\ probe.calls[c].first.set = 1
          /\ probe.calls[c].first.age > JWKSMaxAge
          /\ probe.calls[c].pc = "done"
          /\ probe.calls[c].used.set = 2

\* C23: a call of ValidateToken fetches at most once, and only when its check
\* under the write lock found the key set missing or older than one hour; a
\* call that finds a key set at most one hour old takes no write lock and
\* fetches nothing; a key id absent from the key set fails the call with
\* "key not found in JWKS", and nothing is fetched for it.
C23_AtMostOneFetchPerCall ==
    probe.kind = "refresh" =>
        \A c \in Reqs :
            LET k == probe.calls[c] IN
            /\ k.fetches <= 1
            /\ k.fetches = 1 =>
                  k.locked /\ (k.second.nil \/ k.second.age > JWKSMaxAge)
            /\ k.locked => (k.first.nil \/ k.first.age > JWKSMaxAge)
            /\ (k.pc # "check" /\ ~k.first.nil /\ k.first.age <= JWKSMaxAge) =>
                  /\ ~k.locked
                  /\ k.fetches = 0
                  /\ k.pc \in {"keyfunc", "done"}
            /\ (k.pc = "done" /\ k.err # ErrRefresh) =>
                  (k.kid \notin k.used.keys <=> k.err = "key not found in JWKS")
            /\ k.pc = "done" => k.fetches = (IF k.second = NoObservation THEN 0
                                            ELSE IF k.second.nil \/ k.second.age > JWKSMaxAge
                                                 THEN 1 ELSE 0)
\* a call found the key set exactly one hour old, fetched nothing and failed
\* on a key id the set lacks; another call had fetched that set
C23_Witness ==
    /\ probe.kind = "refresh"
    /\ \E c, d \in Reqs :
          /\ probe.calls[c].pc = "done"
          /\ ~probe.calls[c].first.nil
          /\ probe.calls[c].first.age = JWKSMaxAge
          /\ probe.calls[c].fetches = 0
          /\ probe.calls[c].err = "key not found in JWKS"
          /\ probe.calls[d].fetches = 1
          /\ probe.calls[d].pc = "done"
          /\ probe.calls[d].err = ""

\* C24: a token whose signature verified is checked for issuer, then
\* audience, then expiry, and is rejected for the first of these it fails: a
\* token of an untrusted issuer is rejected for its issuer, whatever its expiry.
C24_IssuerAudienceExpiryInOrder ==
    (probe.kind = "token" /\ probe.applied) =>
        LET tok == probe.tok
            signed == /\ tok.form = "jwt"
                      /\ IsSigningMethodRSA(tok.alg)
                      /\ tok.kid \in probe.keys
                      /\ tok.sigOK
        IN signed =>
              probe.res.cause =
                  IF ~isValidIssuer(tok.iss) THEN "invalid issuer"
                  ELSE IF ~contains(tok.aud, Audience) THEN "invalid audience"
                  ELSE IF ~tok.hasExp \/ ~(probe.t < tok.exp) THEN probe.res.cause
                  ELSE ""

\* C25: whichever backend serves the rules, no two of them name the same
\* caller project: policy_rules keeps gitlab_project unique through every
\* create, update and delete, and the rules of a validated configuration
\* name each project once.
C25_OneRulePerProject ==
    (probe.kind = "source" /\ probe.phase = "serving") =>
        \A i, j \in 1..Len(probe.rules) :
            probe.rules[i].GitLabProject = probe.rules[j].GitLabProject => i = j

\* what the handler did at the end of a mint: its log lines and its response
MintErrorLines ==
    {i \in 1..Len(probe.effects) :
        probe.effects[i].kind = "log" /\ probe.effects[i].entry.level = "ERROR"}
MintResponses ==
    {i \in 1..Len(probe.effects) : probe.effects[i].kind = "respond"}
LookupFailed ==
    probe.kind = "client" /\ probe.pc = "done" /\ probe.calls = <<"GetProject">>

\* C26 as stated: a scope lookup that fails or returns no match fails the
\* mint with not-found, and no account-creation request is submitted.
C26_LookupFailureIsNotFound ==
    LookupFailed =>
        /\ probe.cause = "project not found"
        /\ probe.request = NoRequest

\* C26, amended: a request sends the registry at most one scope lookup and at
\* most one account creation, the creation only after the lookup found the
\* project, and repeats neither; a lookup that returns no match fails the mint
\* with "project not found", a lookup that fails fails it with the lookup's
\* own error (transport, status or decoding), and in both cases no
\* account-creation request is submitted; a failed lookup and a failed
\* creation are each reported once: one error line, one internal-error
\* response.
C26_OneLookupOneCreation ==
    probe.kind = "client" =>
        /\ Count(probe.calls, "GetProject") <= 1
        /\ Count(probe.calls, "CreateRobot") <= 1
        /\ Occurs(probe.calls, "CreateRobot") =>
              /\ probe.calls = <<"GetProject", "CreateRobot">>
              /\ probe.lookup = [net |-> "ok", status |-> StatusOK, body |-> "[project]"]
        /\ probe.pc = "create" => probe.calls = <<"GetProject">>
        /\ LookupFailed =>
              /\ probe.request = NoRequest
              /\ probe.err = ErrGetProject
              /\ probe.lookup.body = "[]" /\ probe.lookup.status = StatusOK
                    /\ probe.lookup.net = "ok"
                    => probe.cause = "project not found"
              /\ probe.lookup.net # "ok" => probe.cause = "failed to execute request"
              /\ (probe.lookup.net = "ok" /\ probe.lookup.status # StatusOK)
                    => probe.cause = "harbor API error"
        /\ (probe.pc = "done" /\ probe.err # "") =>
              /\ Cardinality(MintErrorLines) = 1
              /\ Cardinality(MintResponses) = 1
              /\ Len(probe.effects) = 2
              /\ probe.effects[2].resp.status = StatusInternalServerError
\* a lookup failed on a transport error and was reported once
C26_Witness ==
    /\ LookupFailed
    /\ probe.lookup.net = "error"
    /\ probe.cause = "failed to execute request"
    /\ Cardinality(MintErrorLines) = 1

\* the request is in its handler
Handling(r) == req[r].pc \notin {"start", "done"}
\* the terminal outcomes: bad request, unauthenticated, forbidden, internal,
\* completed; a request that is not a POST is no brokering request and is
\* answered method not allowed before anything else
Outcomes ==
    {StatusBadRequest, StatusUnauthorized, StatusForbidden,
     StatusInternalServerError, StatusOK}
C27_OneOutcome ==
    \A r \in Reqs :
        /\ Done(r) =>
              /\ Count(req[r].hist, "respond") = 1
              /\ req[r].hist[Len(req[r].hist)] = "respond"
              /\ \/ req[r].resp.status \in Outcomes
                 \/ /\ req[r].resp.status = StatusMethodNotAllowed
                    /\ req[r].hist = <<"respond">>
        /\ ~Done(r) =>
              /\ req[r].resp = NoResponse
              /\ ~Occurs(req[r].hist, "respond")
\* the key-set lock is held only by a request whose fetch is in flight, and
\* a request in its handler can take a step unless it waits for that lock
C27_NoDeadlock ==
    /\ keySetMutex # 0 =>
          /\ req[keySetMutex].pc = "fetch"
          /\ ENABLED (RefreshFetched(keySetMutex) \/ RefreshFailed(keySetMutex))
    /\ \A r \in Reqs :
          Handling(r) =>
              \/ ENABLED HandlerStep(r)
              \/ /\ req[r].pc \in {"refresh", "lock", "verify"}
                 /\ keySetMutex \notin {0, r}

OneRulePerProject(rs) ==
    \A i, j \in 1..Len(rs) : rs[i].GitLabProject = rs[j].GitLabProject => i = j
OtherBackend(b) == IF b = "store" THEN "config" ELSE "store"

\* C28: over rules that name each caller project at most once, the engine
\* over the configured rules and the engine over the store give every
\* request the same decision and, when they deny, the same reason.
C28_BackendsInterchangeable ==
    (Decided /\ OneRulePerProject(probe.rules)) =>
        probe.res = AuthorizeRequest(OtherBackend(probe.backend), probe.rules, FALSE,
                                     probe.gp, probe.hp, probe.perm)
\* the store denied a request for its permission, over two rules, as the
\* configured rules do
C28_Witness ==
    /\ Decided /\ probe.backend = "store"
    /\ Len(probe.rules) = 2 /\ OneRulePerProject(probe.rules)
    /\ probe.rules[2].GitLabProject = probe.gp
    /\ probe.res = ErrPermission
    /\ AuthorizeRequest("config", probe.rules, FALSE, probe.gp, probe.hp, probe.perm)
          = ErrPermission

\* C29: with configured rules, several of which may name the caller project,
\* the first rule in list order that names the project and holds the scope
\* decides: rules of the project without the scope are passed over, and when
\* that rule lacks the permission the request is denied for its permission
\* even if a later rule of the project with the scope holds it.
C29_FirstMatchingRuleDecides ==
    (Decided /\ probe.backend = "config") =>
        LET matching == {i \in 1..Len(probe.rules) :
                            /\ probe.rules[i].GitLabProject = probe.gp
                            /\ contains(probe.rules[i].HarborProjects, probe.hp)}
        IN IF matching = {} THEN probe.res = ErrNoPolicy
           ELSE \E f \in matching :
                   /\ \A i \in matching : f <= i
                   /\ probe.res = IF contains(probe.rules[f].AllowedPerms, probe.perm)
                                  THEN "" ELSE ErrPermission
\* two rules of the caller project hold the scope; the first lacks the
\* permission, the second holds it, and the request is denied
C29_Witness ==
    /\ Decided /\ probe.backend = "config"
    /\ Len(probe.rules) = 2
    /\ probe.rules[1].GitLabProject = probe.gp
    /\ probe.rules[2].GitLabProject = probe.gp
    /\ contains(probe.rules[1].HarborProjects, probe.hp)
    /\ contains(probe.rules[2].HarborProjects, probe.hp)
    /\ ~contains(probe.rules[1].AllowedPerms, probe.perm)
    /\ contains(probe.rules[2].AllowedPerms, probe.perm)
    /\ probe.res = ErrPermission

\* C30: a request whose policy lookup in the store failed ends as a denied
\* one: forbidden with the generic message, one denied audit line carrying
\* the lookup error, the same in the store row if the store takes it, and no
\* call of the registry.
C30_LookupErrorIsDenial ==
    \A r \in Reqs :
        req[r].authz = ErrFetchPolicy =>
            /\ backend = "store"
            /\ Done(r)
            /\ req[r].resp.status = StatusForbidden
            /\ req[r].resp.error = "access denied by policy"
            /\ req[r].hist = <<"ValidateToken", "AuthorizeRequest", "Request denied",
                               "store", "respond">>
            /\ Cardinality(AuditLinesOf(r)) = 1
            /\ CopiesOf(AuditLinesOf(r), stdout) = 1
            /\ \A e \in AuditLinesOf(r) :
                  e.message = "Request denied" /\ e.error = ErrFetchPolicy
            /\ \A e \in RowsOf(r) : e.level = "denied" /\ e.error = ErrFetchPolicy
C30_Witness ==
    \E r \in Reqs :
        /\ req[r].authz = ErrFetchPolicy
        /\ req[r].asked = <<"teamA/app", "images-a", "write">>
        /\ req[r].resp.status = StatusForbidden
        /\ NumRows(r) = 1
====
